---- MODULE Spec2Model ----
(***************************************************************************)
(* The turn engine of the castle game (src/turnloop.py, GameEngine) over   *)
(* the castles of src/castle_setup.py.                                     *)
(*                                                                         *)
(* Text is modelled by strings; Optional[str] owners are sequences of      *)
(* length at most one (None is << >>, "x" is <<"x">>).  A draw of          *)
(* random.random() is the rational k / DrawDenom, kept as the integer k,   *)
(* and every comparison draw < success_chance is done exactly by           *)
(* cross-multiplication.  draw holds the value random.random() returned in *)
(* the latest step (None when the step did not call it); out holds the     *)
(* step's last exchange with the presentation port: the kind of the        *)
(* message displayed and the castle name, actor or input token it carries. *)
(***************************************************************************)
EXTENDS Integers, Sequences, FiniteSets, TLC

VARIABLES castle_factory, castles, player_points, cpu_points, cpu2_points,
          username, pc, draw, out

vars == <<castle_factory, castles, player_points, cpu_points, cpu2_points,
          username, pc, draw, out>>

state == <<castles, player_points, cpu_points, cpu2_points, username>>

(* ------------------------------ bounds -------------------------------- *)

\* number of castles of create_initial_castles() the registry hands out
NumCastles == 2

\* random.random() is drawn from { k / DrawDenom : k \in 0 .. DrawDenom-1 }
DrawDenom == 4

(* ----------------------------- constants ------------------------------ *)

TARGET_POINTS == 10

None == << >>

Some(s) == << s >>

Castle(name, point, defense, stability) ==
    [name |-> name, point |-> point, defense |-> defense,
     stability |-> stability, owner |-> None, cycle |-> 0]

\* the four castles of the source, their names transliterated
create_initial_castles ==
    << Castle("Himeji", 8, 7, 4),
       Castle("Odawara", 5, 5, 5),
       Castle("Buckingham", 4, 2, 2),
       Castle("Koshien", 5, 3, 7) >>

\* what the castle factory handed to GameEngine returns: the first
\* NumCastles castles of create_initial_castles()
Registry ==
    SubSeq(create_initial_castles, 1,
           IF NumCastles < Len(create_initial_castles)
           THEN NumCastles ELSE Len(create_initial_castles))

Draws == 0 .. (DrawDenom - 1)

(* ------------------------- text conversions --------------------------- *)

\* str.strip() on the lines the model feeds to io.prompt
Strip(s) ==
    CASE s = " start "  -> "start"
      [] s = " START "  -> "START"
      [] s = " skip "   -> "skip"
      [] s = " reset"   -> "reset"
      [] s = " CPU "    -> "CPU"
      [] s = "  "       -> ""
      [] s = " Himeji " -> "Himeji"
      [] OTHER          -> s

\* str.lower() on the same lines
Lower(s) ==
    CASE s = "START" -> "start"
      [] s = "Start" -> "start"
      [] s = "SKIP"  -> "skip"
      [] OTHER       -> s

ReadyInputs == {"start", " START ", "Start", "go", ""}

NameInputs == {"Taro", " CPU ", "CPU2", "  "}

CastleNames == {create_initial_castles[i].name :
                    i \in 1 .. Len(create_initial_castles)}

TurnInputs == CastleNames \cup
              {"reset", " reset", "skip", " skip ", "SKIP", " Himeji ",
               "Edo", ""}

(* -------------------------- GameState / reset ------------------------- *)

GameState(cs) ==
    [castles |-> cs, cpu_points |-> 0, cpu2_points |-> 0,
     player_points |-> 0, username |-> ""]

Init ==
    /\ castle_factory = Registry
    /\ castles = GameState(castle_factory).castles
    /\ player_points = 0
    /\ cpu_points = 0
    /\ cpu2_points = 0
    /\ username = ""
    /\ pc = "run"
    /\ draw = None
    /\ out = [msg |-> "", target |-> ""]

Say(m, t) == [msg |-> m, target |-> t]

\* mutant: run() re-enters _prepare_game without building a new GameState
reset_state_keeps_board ==
    /\ pc = "run"
    /\ pc' = "prepare_ready"
    /\ draw' = None
    /\ out' = Say("", "")
    /\ UNCHANGED <<castle_factory, state>>

\* run(): self.reset_state() at the top of the while True loop
reset_state ==
    /\ pc = "run"
    /\ castles' = GameState(castle_factory).castles
    /\ player_points' = GameState(castle_factory).player_points
    /\ cpu_points' = GameState(castle_factory).cpu_points
    /\ cpu2_points' = GameState(castle_factory).cpu2_points
    /\ username' = GameState(castle_factory).username
    /\ pc' = "prepare_ready"
    /\ draw' = None
    /\ out' = Say("", "")
    /\ UNCHANGED castle_factory

\* _prepare_game(): one pass of the readiness loop
prepare_ready ==
    /\ pc = "prepare_ready"
    /\ \E line \in ReadyInputs :
          LET ready == Lower(Strip(line)) IN
          /\ pc' = IF ready = "start" THEN "prepare_name" ELSE "prepare_ready"
          /\ out' = Say("ready?", ready)
    /\ draw' = None
    /\ UNCHANGED <<castle_factory, state>>

\* _prepare_game(): self.state.username = io.prompt(...).strip()
prepare_name ==
    /\ pc = "prepare_name"
    /\ \E line \in NameInputs : username' = Strip(line)
    /\ pc' = "loop_head"
    /\ draw' = None
    /\ out' = Say("name?", "")
    /\ UNCHANGED <<castle_factory, castles, player_points, cpu_points,
                   cpu2_points>>

(* --------------------------- handle_victory --------------------------- *)

\* mutant: the ownership loop of handle_victory is missing
handle_victory_keeps_owner(cs, winner) ==
    [i \in DOMAIN cs |->
        [cs[i] EXCEPT !.cycle = IF @ = 0 THEN 2 ELSE @]]

\* mutant: the second loop restarts every castle, whatever its cycle
handle_victory_restarts_all(cs, winner) ==
    [i \in DOMAIN cs |->
        [cs[i] EXCEPT !.owner = Some(winner), !.cycle = 2]]

\* both loops of handle_victory: every castle goes to the winner, then
\* every castle with cycle == 0 is restarted at 2
handle_victory(cs, winner) ==
    [i \in DOMAIN cs |->
        [cs[i] EXCEPT !.owner = Some(winner),
                      !.cycle = IF @ = 0 THEN 2 ELSE @]]

\* mutant: the comparisons are > TARGET_POINTS
Winner_above_target(pp, cp, c2p) ==
    IF pp > TARGET_POINTS THEN "player"
    ELSE IF cp > TARGET_POINTS THEN "cpu"
    ELSE IF c2p > TARGET_POINTS THEN "cpu2"
    ELSE "none"

\* the branch of check_for_victory that fires: "player", "cpu", "cpu2", "none"
Winner(pp, cp, c2p) ==
    IF pp >= TARGET_POINTS THEN "player"
    ELSE IF cp >= TARGET_POINTS THEN "cpu"
    ELSE IF c2p >= TARGET_POINTS THEN "cpu2"
    ELSE "none"

WinnerName(w) ==
    CASE w = "player" -> username
      [] w = "cpu"    -> "CPU"
      [] w = "cpu2"   -> "CPU2"

\* mutant: the caller ignores a True result and the round goes on
check_for_victory_plays_on(at, next) ==
    /\ pc = at
    /\ LET w == Winner(player_points, cpu_points, cpu2_points) IN
       IF w = "none"
       THEN /\ out' = Say("", "")
            /\ UNCHANGED castles
       ELSE /\ out' = Say("won", w)
            /\ castles' = handle_victory(castles, WinnerName(w))
    /\ pc' = next
    /\ draw' = None
    /\ UNCHANGED <<castle_factory, player_points, cpu_points, cpu2_points,
                   username>>

\* check_for_victory called at position `at`; a False result continues at
\* `next`, a True result leaves main_game_loop with COMPLETED and run() ends
check_for_victory(at, next) ==
    /\ pc = at
    /\ LET w == Winner(player_points, cpu_points, cpu2_points) IN
       IF w = "none"
       THEN /\ pc' = next
            /\ out' = Say("", "")
            /\ UNCHANGED castles
       ELSE /\ pc' = "done"
            /\ out' = Say("won", w)
            /\ castles' = handle_victory(castles, WinnerName(w))
    /\ draw' = None
    /\ UNCHANGED <<castle_factory, player_points, cpu_points, cpu2_points,
                   username>>

\* main_game_loop: while not self.check_for_victory(io)
check_loop_head == check_for_victory("loop_head", "player_turn")

\* mutant: the CPU slot is skipped after the Human's victory check
check_after_player_skips_cpu == check_for_victory("check_player", "cpu2_turn")

check_after_player == check_for_victory("check_player", "cpu_turn")

check_after_cpu == check_for_victory("check_cpu", "cpu2_turn")

check_after_cpu2 == check_for_victory("check_cpu2", "loop_head")

(* --------------------------- _process_cycles -------------------------- *)

\* the castles the loop of _process_cycles decrements
Decremented(cs, owner) ==
    {i \in DOMAIN cs : cs[i].cycle > 0 /\ cs[i].owner = Some(owner)}

ProcessedCastles(cs, owner) ==
    [i \in DOMAIN cs |->
        IF i \in Decremented(cs, owner)
        THEN [cs[i] EXCEPT !.cycle = @ - 1]
        ELSE cs[i]]

RECURSIVE CompletedPoints(_, _, _)
\* sum of castle.point over the castles 1..n that reach cycle == 0
CompletedPoints(cs, owner, n) ==
    IF n = 0 THEN 0
    ELSE CompletedPoints(cs, owner, n - 1) +
         (IF n \in Decremented(cs, owner) /\ cs[n].cycle - 1 = 0
          THEN cs[n].point ELSE 0)

\* which counter the if/elif chain of lines 140-153 credits for `owner`
Credited(owner) ==
    IF owner = username THEN "player"
    ELSE IF owner = "CPU" THEN "cpu"
    ELSE IF owner = "CPU2" THEN "cpu2"
    ELSE "none"

process_cycles(owner, at, next) ==
    /\ pc = at
    /\ LET pts == CompletedPoints(castles, owner, Len(castles))
           who == Credited(owner)
       IN /\ castles' = ProcessedCastles(castles, owner)
          /\ player_points' = IF who = "player" THEN player_points + pts
                              ELSE player_points
          /\ cpu_points' = IF who = "cpu" THEN cpu_points + pts
                           ELSE cpu_points
          /\ cpu2_points' = IF who = "cpu2" THEN cpu2_points + pts
                            ELSE cpu2_points
          /\ out' = IF Decremented(castles, owner) = {} THEN Say("", "")
                    ELSE IF pts > 0 THEN Say("points", who)
                    ELSE Say("progress", who)
    /\ pc' = next
    /\ draw' = None
    /\ UNCHANGED <<castle_factory, username>>

process_player_cycles == process_cycles(username, "player_cycles", "check_player")

process_cpu_cycles == process_cycles("CPU", "cpu_cycles", "check_cpu")

process_cpu2_cycles == process_cycles("CPU2", "cpu2_cycles", "check_cpu2")

(* ---------------------------- Turn Resolver --------------------------- *)

\* mutant: the comparison is <=
DevelopSucceeds_or_equal(c, d) == 10 * d <= c.stability * DrawDenom

\* random.random() < target.stability / 10, for the draw d / DrawDenom
DevelopSucceeds(c, d) == 10 * d < c.stability * DrawDenom

\* mutant: target.defense // 2, the half rounded down
ClaimSucceeds_floor_half(c, d) ==
    10 * d < (10 - (c.defense \div 2)) * DrawDenom

\* random.random() < (10 - (target.defense / 2)) / 10
ClaimSucceeds(c, d) == 20 * d < (20 - c.defense) * DrawDenom

\* mutant: stability and defense are swapped
PoachSucceeds_swapped(c, d) ==
    20 * d < (10 + c.defense - c.stability) * DrawDenom

\* random.random() < (10 + target.stability - target.defense) / 20
PoachSucceeds(c, d) == 20 * d < (10 + c.stability - c.defense) * DrawDenom

SetCycle(cs, i, n) == [cs EXCEPT ![i].cycle = n]

SetOwner(cs, i, who) == [cs EXCEPT ![i].owner = Some(who)]

\* next((castle for castle in castles if castle.name == player_input), None):
\* the index of the first castle of that name, 0 for None
Target(cs, player_input) ==
    IF \E i \in DOMAIN cs : cs[i].name = player_input
    THEN CHOOSE i \in DOMAIN cs :
            /\ cs[i].name = player_input
            /\ \A j \in DOMAIN cs : cs[j].name = player_input => i <= j
    ELSE 0

\* mutant: an own castle is developed whatever its cycle
PlayerBranch_develops_any(cs, line) ==
    LET player_input == Strip(line)
        t == Target(cs, player_input)
    IN IF player_input = "reset" THEN "reset"
       ELSE IF player_input = "skip" THEN "skip"
       ELSE IF t # 0 /\ cs[t].owner = Some(username) THEN "develop"
       ELSE IF t # 0 /\ cs[t].owner = None THEN "claim"
       ELSE IF t # 0 /\ cs[t].owner # Some(username) /\ cs[t].cycle = 0
            THEN "poach"
       ELSE "cannot"

\* the branch of player_turn's if/elif chain an input line takes
PlayerBranch(cs, line) ==
    LET player_input == Strip(line)
        t == Target(cs, player_input)
    IN IF player_input = "reset" THEN "reset"
       ELSE IF player_input = "skip" THEN "skip"
       ELSE IF t # 0 /\ cs[t].owner = Some(username)
            THEN (IF cs[t].cycle = 0 THEN "develop" ELSE "already")
       ELSE IF t # 0 /\ cs[t].owner = None THEN "claim"
       ELSE IF t # 0 /\ cs[t].owner # Some(username) /\ cs[t].cycle = 0
            THEN "poach"
       ELSE "cannot"

player_reset ==
    /\ pc = "player_turn"
    /\ \E line \in TurnInputs : PlayerBranch(castles, line) = "reset"
    /\ pc' = "run"
    /\ draw' = None
    /\ out' = Say("reset", "")
    /\ UNCHANGED <<castle_factory, state>>

\* mutant: "skip" also skips the rest of the round
player_skip_ends_round ==
    /\ pc = "player_turn"
    /\ \E line \in TurnInputs : PlayerBranch(castles, line) = "skip"
    /\ pc' = "loop_head"
    /\ draw' = None
    /\ out' = Say("skip", "")
    /\ UNCHANGED <<castle_factory, state>>

player_skip ==
    /\ pc = "player_turn"
    /\ \E line \in TurnInputs : PlayerBranch(castles, line) = "skip"
    /\ pc' = "player_cycles"
    /\ draw' = None
    /\ out' = Say("skip", "")
    /\ UNCHANGED <<castle_factory, state>>

player_develop ==
    /\ pc = "player_turn"
    /\ \E line \in TurnInputs, d \in Draws :
          LET t == Target(castles, Strip(line)) IN
          /\ PlayerBranch(castles, line) = "develop"
          /\ draw' = Some(d)
          /\ IF DevelopSucceeds(castles[t], d)
             THEN /\ castles' = SetCycle(castles, t, 2)
                  /\ out' = Say("develop_ok", castles[t].name)
             ELSE /\ castles' = castles
                  /\ out' = Say("develop_failed", castles[t].name)
    /\ pc' = "player_cycles"
    /\ UNCHANGED <<castle_factory, player_points, cpu_points, cpu2_points,
                   username>>

player_claim ==
    /\ pc = "player_turn"
    /\ \E line \in TurnInputs, d \in Draws :
          LET t == Target(castles, Strip(line)) IN
          /\ PlayerBranch(castles, line) = "claim"
          /\ draw' = Some(d)
          /\ IF ClaimSucceeds(castles[t], d)
             THEN /\ castles' = SetOwner(castles, t, username)
                  /\ out' = Say("claim_ok", castles[t].name)
             ELSE /\ castles' = castles
                  /\ out' = Say("claim_failed", castles[t].name)
    /\ pc' = "player_cycles"
    /\ UNCHANGED <<castle_factory, player_points, cpu_points, cpu2_points,
                   username>>

player_poach ==
    /\ pc = "player_turn"
    /\ \E line \in TurnInputs, d \in Draws :
          LET t == Target(castles, Strip(line)) IN
          /\ PlayerBranch(castles, line) = "poach"
          /\ draw' = Some(d)
          /\ IF PoachSucceeds(castles[t], d)
             THEN /\ castles' = SetOwner(castles, t, username)
                  /\ out' = Say("poach_ok", castles[t].name)
             ELSE /\ castles' = castles
                  /\ out' = Say("poach_failed", castles[t].name)
    /\ pc' = "player_cycles"
    /\ UNCHANGED <<castle_factory, player_points, cpu_points, cpu2_points,
                   username>>

\* the two branches that only display a message and prompt again
player_reprompt ==
    /\ pc = "player_turn"
    /\ \E line \in TurnInputs :
          /\ PlayerBranch(castles, line) \in {"already", "cannot"}
          /\ out' = Say(PlayerBranch(castles, line), Strip(line))
    /\ pc' = "player_turn"
    /\ draw' = None
    /\ UNCHANGED <<castle_factory, state>>

(* ------------------------- cpu_turn / cpu2_turn ------------------------ *)

\* [c for c in castles if c.owner is None]
available_castles(cs) == {i \in DOMAIN cs : cs[i].owner = None}

\* mutant: the c.cycle == 0 filter is missing
owned_any_cycle(cs, who) == {i \in DOMAIN cs : cs[i].owner = Some(who)}

\* [c for c in castles if c.owner == who and c.cycle == 0]: developed_castles
\* for who = "CPU" / "CPU2", owned_by_player for who = username, owned_by_cpu
owned_idle(cs, who) ==
    {i \in DOMAIN cs : cs[i].owner = Some(who) /\ cs[i].cycle = 0}

cpu_develop ==
    /\ pc = "cpu_turn"
    /\ owned_idle(castles, "CPU") # {}
    /\ \E t \in owned_idle(castles, "CPU"), d \in Draws :
          /\ draw' = Some(d)
          /\ IF DevelopSucceeds(castles[t], d)
             THEN /\ castles' = SetCycle(castles, t, 2)
                  /\ out' = Say("develop_ok", castles[t].name)
             ELSE /\ castles' = castles
                  /\ out' = Say("develop_failed", castles[t].name)
    /\ pc' = "cpu_cycles"
    /\ UNCHANGED <<castle_factory, player_points, cpu_points, cpu2_points,
                   username>>

cpu_claim ==
    /\ pc = "cpu_turn"
    /\ owned_idle(castles, "CPU") = {}
    /\ available_castles(castles) # {}
    /\ \E t \in available_castles(castles), d \in Draws :
          /\ draw' = Some(d)
          /\ IF ClaimSucceeds(castles[t], d)
             THEN /\ castles' = SetOwner(castles, t, "CPU")
                  /\ out' = Say("claim_ok", castles[t].name)
             ELSE /\ castles' = castles
                  /\ out' = Say("claim_failed", castles[t].name)
    /\ pc' = "cpu_cycles"
    /\ UNCHANGED <<castle_factory, player_points, cpu_points, cpu2_points,
                   username>>

cpu_poach ==
    /\ pc = "cpu_turn"
    /\ owned_idle(castles, "CPU") = {}
    /\ available_castles(castles) = {}
    /\ owned_idle(castles, username) # {}
    /\ \E t \in owned_idle(castles, username), d \in Draws :
          /\ draw' = Some(d)
          /\ IF PoachSucceeds(castles[t], d)
             THEN /\ castles' = SetOwner(castles, t, "CPU")
                  /\ out' = Say("poach_ok", castles[t].name)
             ELSE /\ castles' = castles
                  /\ out' = Say("poach_failed", castles[t].name)
    /\ pc' = "cpu_cycles"
    /\ UNCHANGED <<castle_factory, player_points, cpu_points, cpu2_points,
                   username>>

\* none of the three lists has a member: only the trailing io.sleep(1)
cpu_idle ==
    /\ pc = "cpu_turn"
    /\ owned_idle(castles, "CPU") = {}
    /\ available_castles(castles) = {}
    /\ owned_idle(castles, username) = {}
    /\ pc' = "cpu_cycles"
    /\ draw' = None
    /\ out' = Say("", "")
    /\ UNCHANGED <<castle_factory, state>>

cpu2_develop ==
    /\ pc = "cpu2_turn"
    /\ owned_idle(castles, "CPU2") # {}
    /\ \E t \in owned_idle(castles, "CPU2"), d \in Draws :
          /\ draw' = Some(d)
          /\ IF DevelopSucceeds(castles[t], d)
             THEN /\ castles' = SetCycle(castles, t, 2)
                  /\ out' = Say("develop_ok", castles[t].name)
             ELSE /\ castles' = castles
                  /\ out' = Say("develop_failed", castles[t].name)
    /\ pc' = "cpu2_cycles"
    /\ UNCHANGED <<castle_factory, player_points, cpu_points, cpu2_points,
                   username>>

cpu2_claim ==
    /\ pc = "cpu2_turn"
    /\ owned_idle(castles, "CPU2") = {}
    /\ available_castles(castles) # {}
    /\ \E t \in available_castles(castles), d \in Draws :
          /\ draw' = Some(d)
          /\ IF ClaimSucceeds(castles[t], d)
             THEN /\ castles' = SetOwner(castles, t, "CPU2")
                  /\ out' = Say("claim_ok", castles[t].name)
             ELSE /\ castles' = castles
                  /\ out' = Say("claim_failed", castles[t].name)
    /\ pc' = "cpu2_cycles"
    /\ UNCHANGED <<castle_factory, player_points, cpu_points, cpu2_points,
                   username>>

cpu2_poach_player ==
    /\ pc = "cpu2_turn"
    /\ owned_idle(castles, "CPU2") = {}
    /\ available_castles(castles) = {}
    /\ owned_idle(castles, username) # {}
    /\ \E t \in owned_idle(castles, username), d \in Draws :
          /\ draw' = Some(d)
          /\ IF PoachSucceeds(castles[t], d)
             THEN /\ castles' = SetOwner(castles, t, "CPU2")
                  /\ out' = Say("poach_ok", castles[t].name)
             ELSE /\ castles' = castles
                  /\ out' = Say("poach_failed", castles[t].name)
    /\ pc' = "cpu2_cycles"
    /\ UNCHANGED <<castle_factory, player_points, cpu_points, cpu2_points,
                   username>>

cpu2_poach_cpu ==
    /\ pc = "cpu2_turn"
    /\ owned_idle(castles, "CPU2") = {}
    /\ available_castles(castles) = {}
    /\ owned_idle(castles, username) = {}
    /\ owned_idle(castles, "CPU") # {}
    /\ \E t \in owned_idle(castles, "CPU"), d \in Draws :
          /\ draw' = Some(d)
          /\ IF PoachSucceeds(castles[t], d)
             THEN /\ castles' = SetOwner(castles, t, "CPU2")
                  /\ out' = Say("poach_cpu_ok", castles[t].name)
             ELSE /\ castles' = castles
                  /\ out' = Say("poach_cpu_failed", castles[t].name)
    /\ pc' = "cpu2_cycles"
    /\ UNCHANGED <<castle_factory, player_points, cpu_points, cpu2_points,
                   username>>

cpu2_idle ==
    /\ pc = "cpu2_turn"
    /\ owned_idle(castles, "CPU2") = {}
    /\ available_castles(castles) = {}
    /\ owned_idle(castles, username) = {}
    /\ owned_idle(castles, "CPU") = {}
    /\ pc' = "cpu2_cycles"
    /\ draw' = None
    /\ out' = Say("", "")
    /\ UNCHANGED <<castle_factory, state>>

(* --------------------------- specification ---------------------------- *)

Next ==
    \/ reset_state
    \/ prepare_ready
    \/ prepare_name
    \/ check_loop_head
    \/ player_reset
    \/ player_skip
    \/ player_develop
    \/ player_claim
    \/ player_poach
    \/ player_reprompt
    \/ process_player_cycles
    \/ check_after_player
    \/ cpu_develop
    \/ cpu_claim
    \/ cpu_poach
    \/ cpu_idle
    \/ process_cpu_cycles
    \/ check_after_cpu
    \/ cpu2_develop
    \/ cpu2_claim
    \/ cpu2_poach_player
    \/ cpu2_poach_cpu
    \/ cpu2_idle
    \/ process_cpu2_cycles
    \/ check_after_cpu2

Spec == Init /\ [][Next]_vars

TypeOK ==
    /\ pc \in {"run", "prepare_ready", "prepare_name", "loop_head",
               "player_turn", "player_cycles", "check_player", "cpu_turn",
               "cpu_cycles", "check_cpu", "cpu2_turn", "cpu2_cycles",
               "check_cpu2", "done"}
    /\ draw = None \/ \E d \in Draws : draw = Some(d)
    /\ \A i \in DOMAIN castles : castles[i].cycle \in 0 .. 2

(* ------------------------------ properties ---------------------------- *)

CheckPcs == {"loop_head", "check_player", "check_cpu", "check_cpu2"}

SetupPcs == {"run", "prepare_ready", "prepare_name"}

\* the Game State reset_state builds: nothing owned, nothing under
\* development, no points
Fresh ==
    /\ Len(castles) = Len(castle_factory)
    /\ \A i \in DOMAIN castles :
          castles[i].owner = None /\ castles[i].cycle = 0
    /\ player_points = 0 /\ cpu_points = 0 /\ cpu2_points = 0

\* the actor a "won" message names, as the owner string handle_victory gets
DeclaredWinner(o) ==
    IF o.target = "player" THEN username
    ELSE IF o.target = "cpu" THEN "CPU" ELSE "CPU2"

\* C1: in every reachable state a castle with cycle > 0 has an owner
\* (an unowned castle has cycle 0).
C1_DevelopingCastleIsOwned ==
    \A i \in DOMAIN castles : castles[i].cycle > 0 => castles[i].owner # None

\* C1 witness: the Victory Handler has run and every castle is under
\* development, owned by the winner
C1_Witness ==
    /\ pc = "done"
    /\ username = "Taro"
    /\ \A i \in DOMAIN castles : castles[i].cycle > 0

RECURSIVE Paid(_, _, _, _)
\* the points of the castles among 1..n that are owned by `who` before the
\* step and go from cycle 1 to cycle 0 in it
Paid(before, after, who, n) ==
    IF n = 0 THEN 0
    ELSE Paid(before, after, who, n - 1) +
         (IF /\ before[n].owner = Some(who)
             /\ before[n].cycle = 1
             /\ after[n].cycle = 0
          THEN before[n].point ELSE 0)

\* C2: in every step of a game each actor's score changes only in that
\* actor's own cycle processing, and then by exactly the points of the
\* castles that actor owns whose cycle goes from 1 to 0; so no score ever
\* decreases and turns, other actors' processing and victory handling leave
\* the three scores alone.
C2_ScoreOnlyFromOwnCompletions ==
    [][pc # "run" =>
        /\ player_points' = player_points +
              (IF pc = "player_cycles"
               THEN Paid(castles, castles', username, Len(castles)) ELSE 0)
        /\ cpu_points' = cpu_points +
              (IF pc = "cpu_cycles"
               THEN Paid(castles, castles', "CPU", Len(castles)) ELSE 0)
        /\ cpu2_points' = cpu2_points +
              (IF pc = "cpu2_cycles"
               THEN Paid(castles, castles', "CPU2", Len(castles)) ELSE 0)
      ]_vars

\* C3: the step in which the Victory Handler runs for winner W leaves every
\* castle owned by W, takes every castle with cycle 0 to cycle 2 and keeps
\* the cycle of every castle with cycle 1 or 2, so no castle ends at cycle 0.
C3_VictoryHandlerEffect ==
    [][pc' = "done" =>
        \A i \in DOMAIN castles :
            /\ castles'[i].owner = Some(DeclaredWinner(out'))
            /\ castles[i].cycle = 0 => castles'[i].cycle = 2
            /\ castles[i].cycle \in {1, 2} =>
                  castles'[i].cycle = castles[i].cycle
            /\ castles'[i].cycle # 0
      ]_vars

\* C3 witness: after the handler one castle is at cycle 1 (kept) and another
\* at cycle 2
C3_Witness ==
    /\ pc = "done"
    /\ username = "Taro"
    /\ \E i \in DOMAIN castles : castles[i].cycle = 1
    /\ \E i \in DOMAIN castles : castles[i].cycle = 2

\* C4: a victory check declares a winner iff some score is >= 10, the
\* winner is the first of Human, CPU, CPU2 with score >= 10, and with all
\* three scores below 10 the check changes nothing and play goes on.
C4_VictoryIffScoreReachesTarget ==
    [][(pc \in CheckPcs) =>
        LET human == player_points >= 10
            cpu   == cpu_points >= 10
            cpu2  == cpu2_points >= 10
        IN /\ (out'.msg = "won") <=> (human \/ cpu \/ cpu2)
           /\ human => out'.target = "player"
           /\ ~human /\ cpu => out'.target = "cpu"
           /\ ~human /\ ~cpu /\ cpu2 => out'.target = "cpu2"
           /\ ~(human \/ cpu \/ cpu2) =>
                 /\ state' = state
                 /\ pc' \in {"player_turn", "cpu_turn", "cpu2_turn",
                             "loop_head"}
      ]_vars

\* C4 witness: a check has declared CPU2, the last in the order, the winner
\* with exactly the target score
C4_Witness ==
    /\ pc = "done"
    /\ out = Say("won", "cpu2")
    /\ cpu2_points = 10

\* the event that follows each event of a round according to the order
\* Human turn, cycles, check, CPU turn, cycles, check, CPU2 turn, cycles,
\* check, Human turn
RoundOrder(p) ==
    CASE p = "player_turn"   -> "player_cycles"
      [] p = "player_cycles" -> "check_player"
      [] p = "check_player"  -> "cpu_turn"
      [] p = "cpu_turn"      -> "cpu_cycles"
      [] p = "cpu_cycles"    -> "check_cpu"
      [] p = "check_cpu"     -> "cpu2_turn"
      [] p = "cpu2_turn"     -> "cpu2_cycles"
      [] p = "cpu2_cycles"   -> "check_cpu2"
      [] p = "check_cpu2"    -> "player_turn"
      [] OTHER               -> p

RoundPcs == {"player_turn", "player_cycles", "check_player", "cpu_turn",
             "cpu_cycles", "check_cpu", "cpu2_turn", "cpu2_cycles",
             "check_cpu2"}

\* C5 as stated: within PLAYING the events of a round follow each other in
\* exactly the order Human turn, Human cycles, check, CPU turn, CPU cycles,
\* check, CPU2 turn, CPU2 cycles, check, and then the Human's turn again.
C5_RoundOrderAsStated ==
    [][(pc \in RoundPcs) /\ pc' \notin {pc, "run", "done"} =>
          pc' = RoundOrder(pc)]_vars

\* C5 amended: the same order, except that the victory check at the head of
\* main_game_loop runs between CPU2's victory check and the Human's turn (and
\* before the first Human turn); that check finds all scores below 10 and
\* changes nothing.
C5_RoundOrderWithLoopHeadCheck ==
    [][/\ pc \in RoundPcs \ {"check_cpu2"} /\ pc' \notin {pc, "run", "done"}
            => pc' = RoundOrder(pc)
       /\ pc = "check_cpu2" /\ pc' # "done" => pc' = "loop_head"
       /\ pc = "loop_head" => pc' = "player_turn" /\ state' = state
       /\ pc' = "loop_head" => pc \in {"check_cpu2", "prepare_name"}
      ]_vars

\* C5 witness: a second round has begun: the Human is to move and CPU2 has
\* already taken a castle
C5_Witness ==
    /\ pc = "player_turn"
    /\ username = "Taro"
    /\ \E i \in DOMAIN castles : castles[i].owner = Some("CPU2")

\* C6: the step in which a victory check declares a winner runs the Victory
\* Handler and ends the game: it leads to COMPLETED with every castle owned
\* by the winner, COMPLETED is entered only that way, and no step (turn,
\* cycle processing, victory handling, reset) is taken from COMPLETED.
C6_VictoryIsTerminal ==
    [][/\ pc # "done"
       /\ out'.msg = "won" => pc' = "done"
       /\ pc' = "done" =>
             /\ pc \in CheckPcs
             /\ out'.msg = "won"
             /\ \A i \in DOMAIN castles :
                   castles'[i].owner = Some(DeclaredWinner(out'))
      ]_vars

\* C6 witness: the game is COMPLETED with the Human as winner
C6_Witness ==
    /\ pc = "done"
    /\ username = "Taro"
    /\ out = Say("won", "player")
    /\ \A i \in DOMAIN castles : castles[i].owner = Some(username)

\* C7: "reset" on the Human's turn abandons the round at once (the next
\* step is reset_state, not cycle processing, a check or a computer turn),
\* reset_state builds a Game State with every castle unowned at cycle 0 and
\* all scores 0, and play resumes only through the readiness confirmation
\* ("start") and the name prompt, with the board still fresh.
C7_ResetReentersSetup ==
    [][/\ pc = "player_turn" /\ out'.msg = "reset" =>
             pc' = "run" /\ state' = state
       /\ pc = "run" => pc' = "prepare_ready" /\ Fresh' /\ username' = ""
       /\ pc = "prepare_ready" =>
             /\ pc' \in {"prepare_ready", "prepare_name"}
             /\ pc' = "prepare_name" <=> out'.target = "start"
             /\ Fresh'
       /\ pc = "prepare_name" => pc' = "loop_head" /\ Fresh'
      ]_vars

\* C7 witness: the Human has entered "reset" in the middle of a game (a
\* castle is owned and a score is positive)
C7_Witness ==
    /\ pc = "run"
    /\ username = "Taro"
    /\ out.msg = "reset"
    /\ \E i \in DOMAIN castles : castles[i].owner # None
    /\ player_points + cpu_points + cpu2_points > 0

\* C8: in no step of PLAYING before the Victory Handler does the owner of a
\* castle change while its cycle is > 0.
C8_NoOwnerChangeUnderDevelopment ==
    [][(pc \in RoundPcs \cup {"loop_head"}) /\ pc' # "done" =>
          \A i \in DOMAIN castles :
              castles[i].cycle > 0 => castles'[i].owner = castles[i].owner
      ]_vars

\* C8 witness: CPU2 has just poached a castle from the Human while the
\* Human's other castle, under development, stayed the Human's
C8_Witness ==
    /\ pc = "cpu2_cycles"
    /\ out.msg = "poach_ok"
    /\ username = "Taro"
    /\ \E i \in DOMAIN castles :
          castles[i].cycle > 0 /\ castles[i].owner = Some("Taro")

\* C9: on CPU's turn the category is (1) Develop an own castle with cycle 0,
\* else (2) Claim an unowned castle, else (3) Poach a Human-owned castle with
\* cycle 0; on CPU2's turn the same with (4) Poach a CPU-owned castle with
\* cycle 0 last.  Only the first non-empty category is used, the target is a
\* member of it, at most one castle changes, an empty turn changes nothing,
\* and CPU never targets a CPU2-owned castle.
C9_ComputerPriority ==
    [][(pc \in {"cpu_turn", "cpu2_turn"}) =>
        LET me    == IF pc = "cpu_turn" THEN "CPU" ELSE "CPU2"
            own   == {i \in DOMAIN castles :
                        castles[i].owner = Some(me) /\ castles[i].cycle = 0}
            free  == {i \in DOMAIN castles : castles[i].owner = None}
            human == {i \in DOMAIN castles :
                        /\ castles[i].owner = Some(username)
                        /\ castles[i].cycle = 0}
            cpus  == IF pc = "cpu2_turn"
                     THEN {i \in DOMAIN castles :
                             /\ castles[i].owner = Some("CPU")
                             /\ castles[i].cycle = 0}
                     ELSE {}
            used  == IF own # {} THEN own
                     ELSE IF free # {} THEN free
                     ELSE IF human # {} THEN human
                     ELSE cpus
            changed == {i \in DOMAIN castles : castles'[i] # castles[i]}
        IN /\ Cardinality(changed) <= 1
           /\ changed \subseteq used
           /\ used # {} => \E i \in used : out'.target = castles[i].name
           /\ used = {} => out'.target = ""
           /\ \A i \in changed :
                 IF own # {}
                 THEN castles'[i] = [castles[i] EXCEPT !.cycle = 2]
                 ELSE castles'[i] = [castles[i] EXCEPT !.owner = Some(me)]
           /\ <<player_points, cpu_points, cpu2_points>>' =
                 <<player_points, cpu_points, cpu2_points>>
           /\ pc = "cpu_turn" =>
                 \A i \in DOMAIN castles :
                     castles[i].owner = Some("CPU2") =>
                        /\ castles'[i] = castles[i]
                        /\ out'.target # castles[i].name
      ]_vars

\* what the Human typed, as the step's message records it
Typed(o) == IF o.msg \in {"reset", "skip"} THEN o.msg ELSE o.target

\* a castle name the Human may act on: the castle is unowned, or its cycle
\* is 0 (own: Develop, another actor's: Poach)
Eligible(name) ==
    \E i \in DOMAIN castles :
        /\ castles[i].name = name
        /\ castles[i].owner = None \/ castles[i].cycle = 0

\* C10: an input on the Human's turn that is neither "reset", "skip" nor the
\* name of an eligible castle changes no castle and no score, consumes no
\* random draw and leaves the Human at the prompt; any other input ends the
\* prompt loop.
C10_IneligibleInputReprompts ==
    [][pc = "player_turn" =>
        IF Typed(out') \in {"reset", "skip"} \/ Eligible(Typed(out'))
        THEN pc' # "player_turn"
        ELSE /\ pc' = "player_turn"
             /\ state' = state
             /\ draw' = None
             /\ out'.msg \in {"already", "cannot"}
      ]_vars

\* C10 witness: the Human, already told that an own castle is under
\* development, is at the prompt again
C10_Witness ==
    /\ pc = "player_turn"
    /\ username = "Taro"
    /\ out.msg = "already"
    /\ \E i \in DOMAIN castles :
          /\ castles[i].name = out.target
          /\ castles[i].owner = Some(username)
          /\ castles[i].cycle > 0

\* C11: "skip" ends the Human's turn with no castle, score or draw touched
\* and the round goes on: Human cycle processing, the victory check, and,
\* unless a winner is declared, the CPU and CPU2 slots.
C11_SkipEndsTurnOnly ==
    [][/\ pc = "player_turn" /\ out'.msg = "skip" =>
             /\ state' = state
             /\ draw' = None
             /\ pc' = "player_cycles"
       /\ pc = "player_cycles" => pc' = "check_player"
       /\ pc = "check_player" /\ pc' # "done" => pc' = "cpu_turn"
       /\ pc = "cpu_turn" => pc' = "cpu_cycles"
       /\ pc = "cpu_cycles" => pc' = "check_cpu"
       /\ pc = "check_cpu" /\ pc' # "done" => pc' = "cpu2_turn"
       /\ pc = "cpu2_turn" => pc' = "cpu2_cycles"
       /\ pc = "cpu2_cycles" => pc' = "check_cpu2"
      ]_vars

\* C11 witness: the Human has skipped while holding a castle under
\* development, which the cycle processing that follows will advance
C11_Witness ==
    /\ pc = "player_cycles"
    /\ out.msg = "skip"
    /\ username = "Taro"
    /\ \E i \in DOMAIN castles :
          castles[i].owner = Some("Taro") /\ castles[i].cycle > 0

TurnPcs == {"player_turn", "cpu_turn", "cpu2_turn"}

\* the owner string of the actor whose turn it is at position p
ActorAt(p) ==
    IF p = "player_turn" THEN username
    ELSE IF p = "cpu_turn" THEN "CPU" ELSE "CPU2"

\* the castle a message names
Named(o) == CHOOSE i \in DOMAIN castles : castles[i].name = o.target

Scores == <<player_points, cpu_points, cpu2_points>>

\* C12: a Develop attempt is made only on a castle the actor owns at cycle
\* 0; with draw d it succeeds iff d < stability/10; success sets that
\* castle's cycle to 2 and changes nothing else, failure changes nothing;
\* and no turn changes a castle's cycle in any other way.
C12_DevelopRule ==
    [][(pc \in TurnPcs) =>
        /\ out'.msg \in {"develop_ok", "develop_failed"} =>
             LET t == Named(out') IN
             /\ castles[t].owner = Some(ActorAt(pc))
             /\ castles[t].cycle = 0
             /\ draw' # None
             /\ (out'.msg = "develop_ok") <=>
                   (10 * draw'[1] < castles[t].stability * DrawDenom)
             /\ castles' = IF out'.msg = "develop_ok"
                           THEN [castles EXCEPT ![t].cycle = 2]
                           ELSE castles
             /\ Scores' = Scores
        /\ \A i \in DOMAIN castles :
             castles'[i].cycle # castles[i].cycle =>
                out' = Say("develop_ok", castles[i].name)
      ]_vars

\* C12 witness: a Develop of Odawara (stability 5) has just failed on the
\* draw 0.5, which is not below 5/10
C12_Witness ==
    /\ out = Say("develop_failed", "Odawara")
    /\ draw # None
    /\ 2 * draw[1] = DrawDenom

\* C13: a Claim attempt is made only on an unowned castle; with draw d it
\* succeeds iff 20*d < 20 - defense; success makes the actor the owner and
\* leaves the cycle at 0, failure changes nothing; and no turn gives an
\* unowned castle an owner in any other way.
C13_ClaimRule ==
    [][(pc \in TurnPcs) =>
        /\ out'.msg \in {"claim_ok", "claim_failed"} =>
             LET t == Named(out') IN
             /\ castles[t].owner = None
             /\ draw' # None
             /\ (out'.msg = "claim_ok") <=>
                   (20 * draw'[1] < (20 - castles[t].defense) * DrawDenom)
             /\ castles' = IF out'.msg = "claim_ok"
                           THEN [castles EXCEPT
                                   ![t].owner = Some(ActorAt(pc))]
                           ELSE castles
             /\ castles'[t].cycle = 0
             /\ Scores' = Scores
        /\ \A i \in DOMAIN castles :
             castles[i].owner = None /\ castles'[i].owner # None =>
                out' = Say("claim_ok", castles[i].name)
      ]_vars

\* C13 witness: a Claim of Odawara (defense 5) has just failed on the draw
\* 0.75, which is not below (10 - 2.5)/10
C13_Witness ==
    /\ out = Say("claim_failed", "Odawara")
    /\ draw # None
    /\ 4 * draw[1] = 3 * DrawDenom

\* C14: a Poach attempt is made only on a castle owned by another actor at
\* cycle 0; with draw d it succeeds iff d < (10 + stability - defense)/20;
\* success makes the actor the owner with the cycle still 0, failure changes
\* nothing; no score changes; and no turn takes a castle from its owner in
\* any other way.
C14_PoachRule ==
    [][(pc \in TurnPcs) =>
        LET ok   == out'.msg \in {"poach_ok", "poach_cpu_ok"}
            fail == out'.msg \in {"poach_failed", "poach_cpu_failed"}
        IN
        /\ ok \/ fail =>
             LET t == Named(out') IN
             /\ castles[t].owner # None
             /\ castles[t].owner # Some(ActorAt(pc))
             /\ castles[t].cycle = 0
             /\ draw' # None
             /\ ok <=> (20 * draw'[1] <
                          (10 + castles[t].stability - castles[t].defense)
                             * DrawDenom)
             /\ castles' = IF ok
                           THEN [castles EXCEPT
                                   ![t].owner = Some(ActorAt(pc))]
                           ELSE castles
             /\ castles'[t].cycle = 0
             /\ Scores' = Scores
        /\ \A i \in DOMAIN castles :
             /\ castles[i].owner # None
             /\ castles'[i].owner # castles[i].owner
             => ok /\ out'.target = castles[i].name
      ]_vars

\* C14 witness: CPU2 has just failed to poach Himeji (stability 4, defense 7)
\* from CPU on the draw 0.5, which is not below 7/20
C14_Witness ==
    /\ out = Say("poach_cpu_failed", "Himeji")
    /\ draw # None
    /\ 2 * draw[1] = DrawDenom

CyclePcs == {"player_cycles", "cpu_cycles", "cpu2_cycles"}

\* the owner string of the actor whose cycle processing runs at position p
SlotActor(p) ==
    IF p = "player_cycles" THEN username
    ELSE IF p = "cpu_cycles" THEN "CPU" ELSE "CPU2"

\* the score counter of the actor whose cycle processing runs at position
\* p, read from the triple sc of the three counters
SlotScore(p, sc) ==
    IF p = "player_cycles" THEN sc[1]
    ELSE IF p = "cpu_cycles" THEN sc[2] ELSE sc[3]

\* the cycle processing position that follows the turn at position p
SlotAfter(p) ==
    IF p = "player_turn" THEN "player_cycles"
    ELSE IF p = "cpu_turn" THEN "cpu_cycles" ELSE "cpu2_cycles"

\* C15: development takes exactly two of the owner's cycle-processing runs
\* and pays once.  A successful Develop by A leaves the castle at cycle 2
\* with A's cycle processing next; A's cycle processing leaves A's castles
\* at cycle 0 alone, takes those at 2 to 1 and those at 1 to 0, and raises
\* A's score by exactly the points of those that went from 1 to 0; and
\* between A's runs (turns, victory checks that declare nobody, the other
\* actors' processing of their own castles) a castle under development
\* keeps its cycle, so the run that pays is A's run one round later.
C15_DevelopmentTakesTwoRuns ==
    [][/\ (pc \in TurnPcs) /\ out'.msg = "develop_ok" =>
             /\ castles'[Named(out')].cycle = 2
             /\ castles'[Named(out')].owner = Some(ActorAt(pc))
             /\ pc' = SlotAfter(pc)
       /\ (pc \in CyclePcs) =>
             /\ \A i \in DOMAIN castles :
                   castles[i].owner = Some(SlotActor(pc)) =>
                      castles'[i].cycle =
                         IF castles[i].cycle = 0 THEN 0
                         ELSE castles[i].cycle - 1
             /\ SlotScore(pc, Scores') = SlotScore(pc, Scores) +
                   Paid(castles, castles', SlotActor(pc), Len(castles))
       /\ (pc \in RoundPcs \cup {"loop_head"}) /\ pc' # "done" =>
             \A i \in DOMAIN castles :
                 /\ castles[i].cycle > 0
                 /\ ~(pc \in CyclePcs /\ castles[i].owner = Some(SlotActor(pc)))
                 => castles'[i].cycle = castles[i].cycle
      ]_vars

\* C17: cycle processing for actor A lowers by exactly 1 the cycle of every
\* castle A owns with cycle > 0 and leaves alone every other castle, every
\* castle at cycle 0, every owner and the scores of the other two actors.
C17_CycleProcessingFrame ==
    [][(pc \in CyclePcs) =>
        /\ \A i \in DOMAIN castles :
              castles'[i] =
                 IF castles[i].owner = Some(SlotActor(pc)) /\ castles[i].cycle > 0
                 THEN [castles[i] EXCEPT !.cycle = @ - 1]
                 ELSE castles[i]
        /\ pc # "player_cycles" => player_points' = player_points
        /\ pc # "cpu_cycles" => cpu_points' = cpu_points
        /\ pc # "cpu2_cycles" => cpu2_points' = cpu2_points
      ]_vars

\* C18: at the start of every actor turn (and at the loop-head check) all
\* three scores are below 10, and at the victory check of a slot only the
\* actor whose cycle processing has just run can have a score >= 10.
C18_OnlySlotActorCanQualify ==
    /\ pc \in TurnPcs \cup {"loop_head"} =>
          player_points < 10 /\ cpu_points < 10 /\ cpu2_points < 10
    /\ pc = "check_player" => cpu_points < 10 /\ cpu2_points < 10
    /\ pc = "check_cpu" => player_points < 10 /\ cpu2_points < 10
    /\ pc = "check_cpu2" => player_points < 10 /\ cpu_points < 10

\* a GameEngine built on either registry: the castles of Registry, or a
\* castle factory that returns an empty collection
InitAnyRegistry ==
    /\ castle_factory \in {Registry, << >>}
    /\ castles = GameState(castle_factory).castles
    /\ player_points = 0
    /\ cpu_points = 0
    /\ cpu2_points = 0
    /\ username = ""
    /\ pc = "run"
    /\ draw = None
    /\ out = Say("", "")

SpecAnyRegistry == InitAnyRegistry /\ [][Next]_vars

\* C16: with an empty registry the engine stops at SETUP: no Human turn is
\* prompted, and no other event of a round takes place, with an empty castle
\* collection.
C16_EmptyRegistryFailsFast ==
    Len(castles) = 0 => pc \notin RoundPcs

\* GameEngine(create_initial_castles), as main() builds it: all four castles
InitShipped ==
    /\ castle_factory = create_initial_castles
    /\ castles = GameState(castle_factory).castles
    /\ player_points = 0
    /\ cpu_points = 0
    /\ cpu2_points = 0
    /\ username = ""
    /\ pc = "run"
    /\ draw = None
    /\ out = Say("", "")

\* in the game of a Human who only skips, every computer turn finds an own
\* castle to develop or an unowned castle to claim: the poach branches and
\* the empty turn are never taken
SkipTurnsDevelopOrClaim ==
    /\ pc = "cpu_turn" =>
          owned_idle(castles, "CPU") # {} \/ available_castles(castles) # {}
    /\ pc = "cpu2_turn" =>
          owned_idle(castles, "CPU2") # {} \/ available_castles(castles) # {}

\* the game of a Human who answers every turn prompt with "skip": no
\* "reset", no castle name.  The branches of cpu_turn and cpu2_turn left out
\* are the ones SkipTurnsDevelopOrClaim shows are never enabled here.
NextSkip ==
    \/ reset_state
    \/ prepare_ready
    \/ prepare_name
    \/ check_loop_head
    \/ player_skip
    \/ process_player_cycles
    \/ check_after_player
    \/ cpu_develop
    \/ cpu_claim
    \/ process_cpu_cycles
    \/ check_after_cpu
    \/ cpu2_develop
    \/ cpu2_claim
    \/ process_cpu2_cycles
    \/ check_after_cpu2

\* fair random outcomes: a success on a given target that is possible again
\* and again eventually happens
FairOutcomes ==
    \A n \in CastleNames :
        /\ SF_vars(cpu_develop /\ out' = Say("develop_ok", n))
        /\ SF_vars(cpu_claim /\ out' = Say("claim_ok", n))
        /\ SF_vars(cpu2_develop /\ out' = Say("develop_ok", n))
        /\ SF_vars(cpu2_claim /\ out' = Say("claim_ok", n))

\* the inputs arrive and the engine keeps running
FairProgress ==
    /\ WF_vars(NextSkip)
    /\ SF_vars(prepare_ready /\ pc' = "prepare_name")

SpecSkip == InitShipped /\ [][NextSkip]_vars /\ FairProgress /\ FairOutcomes

\* C19: whatever name the Human enters, the actors stay distinct.  Stated
\* for the game of a Human who only skips, where every owned castle was
\* taken by CPU or CPU2: on the Human's turn no castle is treated as the
\* Human's own (its name selects neither Develop nor the "already developed"
\* answer); cycle processing in the Human's slot changes no castle; the
\* Human's score never changes; and the completions in CPU's (CPU2's) slot
\* are paid to the CPU (CPU2) counter.
C19_ActorsStayDistinct ==
    [][pc # "run" =>
        /\ pc = "player_turn" =>
              \A n \in CastleNames :
                  PlayerBranch(castles, n) \notin {"develop", "already"}
        /\ pc = "player_cycles" => castles' = castles
        /\ player_points' = player_points
        /\ pc = "cpu_cycles" =>
              cpu_points' = cpu_points +
                 Paid(castles, castles', "CPU", Len(castles))
        /\ pc = "cpu2_cycles" =>
              cpu2_points' = cpu2_points +
                 Paid(castles, castles', "CPU2", Len(castles))
      ]_vars

\* C20, its safety half: when the Human only skips, the Human's score stays
\* 0 and a COMPLETED game has CPU or CPU2 as its winner.
C20_SkippingHumanNeverWins ==
    /\ player_points = 0
    /\ pc = "done" => out.msg = "won" /\ out.target \in {"cpu", "cpu2"}

====
